---- MODULE Spec2Model ----
(***************************************************************************)
(* State-machine model of the two browser front-ends of resume-hero:       *)
(*   - the resume viewer   (src/frontend/script.js)                        *)
(*   - the number calculator (src/unnamed/part_000, lines 1-114)           *)
(* A browser document loads exactly one of the two scripts; `page` records *)
(* which one, and every handler is guarded by the page it belongs to.      *)
(*                                                                         *)
(* Text is modelled as a sequence of one-character strings, so that the    *)
(* character-level functions (replace, split, join, includes, parseFloat)  *)
(* are computed as the code computes them.                                 *)
(***************************************************************************)
EXTENDS Integers, Sequences, FiniteSets, TLC

(***************************************************************************)
(* Bounds                                                                  *)
(***************************************************************************)
\* number of fetch requests of one page that may be pending at the same time
MaxOutstanding == 2

Slots == 1..MaxOutstanding

(***************************************************************************)
(* Characters and text                                                     *)
(***************************************************************************)
Digits == {"0", "1", "2", "3", "4", "5", "6", "7", "8", "9"}

\* One token that stands for a pasted run of 309 consecutive '9' characters:
\* the shortest all-digit text whose value exceeds the largest double
\* (1.797e308), which parseFloat therefore turns into Infinity.
NineRun == "9{309}"

DigitChars == Digits \cup {NineRun}

WhiteSpace == {" "}

\* the character class [0-9.-] of the sanitising regular expression
NumericChars == DigitChars \cup {".", "-"}

IsNumericChar(c) == c \in NumericChars

RECURSIVE Split(_, _)
\* String.prototype.split(sep) for a one-character separator
Split(s, sep) ==
    IF \A i \in 1..Len(s) : s[i] # sep
    THEN <<s>>
    ELSE LET i == CHOOSE k \in 1..Len(s) :
                      s[k] = sep /\ \A j \in 1..(k - 1) : s[j] # sep
         IN  <<SubSeq(s, 1, i - 1)>> \o Split(SubSeq(s, i + 1, Len(s)), sep)

RECURSIVE Join(_, _)
\* Array.prototype.join(sep)
Join(parts, sep) ==
    IF parts = <<>> THEN <<>>
    ELSE IF Len(parts) = 1 THEN parts[1]
    ELSE parts[1] \o sep \o Join(Tail(parts), sep)

\* String.prototype.includes(sub)
Includes(s, sub) ==
    \E i \in 1..(Len(s) - Len(sub) + 1) : SubSeq(s, i, i + Len(sub) - 1) = sub

RECURSIVE TrimStart(_)
TrimStart(s) ==
    IF s # <<>> /\ s[1] \in WhiteSpace THEN TrimStart(Tail(s)) ELSE s

RECURSIVE TrimEnd(_)
TrimEnd(s) ==
    IF s # <<>> /\ s[Len(s)] \in WhiteSpace
    THEN TrimEnd(SubSeq(s, 1, Len(s) - 1)) ELSE s

\* String.prototype.trim()
Trim(s) == TrimEnd(TrimStart(s))

\* length of the longest prefix of s made of digit characters
DigitPrefixLen(s) ==
    CHOOSE n \in 0..Len(s) :
        /\ \A i \in 1..n : s[i] \in DigitChars
        /\ (n < Len(s) => s[n + 1] \notin DigitChars)

\* parseFloat(s), reduced to the class of the resulting double: "NaN",
\* "finite", "Infinity" or "-Infinity".  The longest prefix that is a decimal
\* literal is parsed: [ws] [+|-] (digits [. [digits]] | . digits); whatever
\* follows is ignored.  Exponents and the literal "Infinity" need letters,
\* which never survive validateInput; they parse as NaN / are ignored here.
parseFloat(s) ==
    LET t     == TrimStart(s)
        signn == IF t # <<>> /\ t[1] \in {"-", "+"} THEN 1 ELSE 0
        neg   == signn = 1 /\ t[1] = "-"
        u     == SubSeq(t, signn + 1, Len(t))
        n     == DigitPrefixLen(u)
        int   == SubSeq(u, 1, n)
        rest  == SubSeq(u, n + 1, Len(u))
        fracn == IF rest # <<>> /\ rest[1] = "." THEN DigitPrefixLen(Tail(rest)) ELSE 0
        huge  == \E i \in 1..n : int[i] = NineRun
    IN  IF n = 0 /\ fracn = 0 THEN "NaN"
        ELSE IF huge THEN (IF neg THEN "-Infinity" ELSE "Infinity")
        ELSE "finite"

isNaN(x) == x = "NaN"

(***************************************************************************)
(* Files                                                                   *)
(***************************************************************************)
\* JavaScript null / no value
Null == [null |-> TRUE]

\* 10 * 1024 * 1024, the maxSize of processFile
MaxFileSize == 10485760

PdfType  == <<"a","p","p","l","i","c","a","t","i","o","n","/","p","d","f">>
XPdfType == <<"a","p","p","l","i","c","a","t","i","o","n","/","x","-","p","d","f">>
TextType == <<"t","e","x","t","/","p","l","a","i","n">>

\* the files the user may pick or drop
Files == {
    [name |-> "cv.pdf",    type |-> PdfType,  size |-> 1536],
    [name |-> "old.pdf",   type |-> PdfType,  size |-> MaxFileSize],
    [name |-> "scan.bin",  type |-> XPdfType, size |-> 0],
    [name |-> "huge.pdf",  type |-> PdfType,  size |-> MaxFileSize + 1],
    [name |-> "notes.txt", type |-> TextType, size |-> 1536],
    [name |-> "video.mp4", type |-> <<>>,     size |-> MaxFileSize + 1] }

Pow1024(i) == IF i = 0 THEN 1 ELSE IF i = 1 THEN 1024
              ELSE IF i = 2 THEN 1048576 ELSE 1073741824

SizeUnits == <<"Bytes", "KB", "MB", "GB">>

\* formatFileSize(bytes): the number with at most two decimals (toFixed(2),
\* trailing zeros dropped by parseFloat) and the unit.  hundredths holds the
\* number times 100, rounded half up.
formatFileSize(bytes) ==
    IF bytes = 0 THEN [hundredths |-> 0, unit |-> "Bytes"]
    ELSE LET i == CHOOSE k \in 0..3 :
                      Pow1024(k) <= bytes /\ (k < 3 => bytes < Pow1024(k + 1))
         IN  [hundredths |-> (2 * 100 * bytes + Pow1024(i)) \div (2 * Pow1024(i)),
              unit       |-> SizeUnits[i + 1]]

(***************************************************************************)
(* State                                                                   *)
(***************************************************************************)
VARIABLES
    page,           \* which script the document runs: "calculator" or "resume"
    last,           \* the event handled last: [op, arg, file, issued, data, prior]
    \* calculator (src/unnamed/part_000)
    number1Input,   \* number1Input.value
    number2Input,   \* number2Input.value
    addButton,      \* [disabled, textContent]
    resultDiv,      \* [textContent, className]
    addRequests,    \* slot -> "free" | "fetch" | "json": suspended handleAddition calls
    \* resume viewer (src/frontend/script.js)
    selectedFile,   \* Null or a file
    fileInput,      \* fileInput.value: Null (empty) or the picked file
    uploadArea,     \* [display, dragover]
    fileInfo,       \* fileInfo.style.display
    fileName,       \* fileName.textContent
    fileSize,       \* fileSize.textContent
    parseButton,    \* [disabled]
    loading,        \* loading.style.display
    resultSection,  \* resultSection.style.display
    resumeData,     \* resumeData.innerHTML
    error,          \* error.style.display
    errorMessage,   \* errorMessage.textContent
    parseRequests   \* slot -> [phase, file]: suspended handleParse calls

calcVars == <<number1Input, number2Input, addButton, resultDiv, addRequests>>

resumeVars == <<selectedFile, fileInput, uploadArea, fileInfo, fileName, fileSize,
                parseButton, loading, resultSection, resumeData, error,
                errorMessage, parseRequests>>

vars == <<page, last, calcVars, resumeVars>>

\* a settled response: data is the parsed body (Null when there is none),
\* prior tells what the output element held when the handler resumed
Response(op, arg, file, data, prior) ==
    [op |-> op, arg |-> arg, file |-> file, issued |-> FALSE,
     data |-> data, prior |-> prior]

Event(op, arg, file, issued) ==
    [op |-> op, arg |-> arg, file |-> file, issued |-> issued,
     data |-> Null, prior |-> "none"]

\* the lowest of the free slots: where the next suspended handler is kept
FreeSlot(free) == CHOOSE s \in free : \A t \in free : s <= t

(***************************************************************************)
(* Calculator                                                              *)
(***************************************************************************)
\* what the user may type or paste into a number field
RawInputs == {
    <<>>,
    <<"-", "5">>,
    <<" ", "5", "a">>,
    <<"a", "b", "c">>,
    <<"1", ".", "2", ".", "3">>,
    <<"1", "-", "2">>,
    <<"-", "-", "5">>,
    <<"-">>,
    <<"1", NineRun>> }

\* the bodies a 2xx answer of POST /add may carry once parsed as JSON
\* A JSON number is held as its value times 100: 800 is 8, 560 is 5.6.
AddBodies == { [result |-> 800, operation |-> "addition"],
               [result |-> -200, operation |-> "addition"],
               [result |-> 560, operation |-> "addition"],
               [operation |-> "addition"] }

AddFailureMessage == <<"Failed to calculate. Please check if the server is running.">>

AddInvalidMessage == <<"Please enter valid numbers">>

\* validateInput, lines 27-38: the value the field holds after the input event
Sanitize(value) ==
    LET numericValue == SelectSeq(value, IsNumericChar)
        parts        == Split(numericValue, ".")
    IN  IF Len(parts) > 2
        THEN parts[1] \o <<".">> \o Join(Tail(parts), <<>>)
        ELSE numericValue

\* updateButtonState: the value it assigns to addButton.disabled
updateButtonState(v1, v2) ==
    LET num1 == parseFloat(v1)
        num2 == parseFloat(v2)
    IN  IF ~isNaN(num1) /\ ~isNaN(num2) /\ Trim(v1) # <<>> /\ Trim(v2) # <<>>
        THEN FALSE
        ELSE TRUE

DigitOf(d) == CHOOSE c \in Digits : c = ToString(d)

RECURSIVE DecimalDigits(_)
\* the decimal digits of a natural number, most significant first
DecimalDigits(n) ==
    IF n < 10 THEN <<DigitOf(n)>> ELSE DecimalDigits(n \div 10) \o <<DigitOf(n % 10)>>

\* Number::toString of a number with at most two decimals: no trailing
\* zeros and no decimal point for an integer
NumberToString(hundredths) ==
    LET a    == IF hundredths < 0 THEN -hundredths ELSE hundredths
        frac == a % 100
    IN  (IF hundredths < 0 THEN <<"-">> ELSE <<>>)
        \o DecimalDigits(a \div 100)
        \o (IF frac = 0 THEN <<>>
            ELSE IF frac % 10 = 0 THEN <<".", DigitOf(frac \div 10)>>
            ELSE <<".", DigitOf(frac \div 10), DigitOf(frac % 10)>>)

\* `Result: ${result}` of line 103: undefined is interpolated as "undefined"
ResultText(data) ==
    <<"Result: ">> \o (IF "result" \in DOMAIN data
                       THEN NumberToString(data.result) ELSE <<"undefined">>)

\* a showResult that leaves the error style on the line
showResultKeepsErrorStyle(data) ==
    [textContent |-> ResultText(data), className |-> "result show error"]

\* showResult(data.result) of line 88, given the body data
showResult(data) == [textContent |-> ResultText(data), className |-> "result show"]

showErrorCalc(message) == [textContent |-> message, className |-> "result show error"]

\* handleAddition, lines 68-69: the button while the request is pending
AddButtonBusy == [disabled |-> TRUE, textContent |-> "Calculating..."]

\* a finally block that only restores the label
AddButtonFinallyLabelOnly(v1, v2) == [addButton EXCEPT !.textContent = "Add"]

\* handleAddition, lines 93-98: the finally block
AddButtonFinally(v1, v2) == [disabled |-> updateButtonState(v1, v2), textContent |-> "Add"]

AddPending == {s \in Slots : addRequests[s] # "free"}

\* input event on one of the two fields
ValidateInput(field, raw) ==
    /\ page = "calculator"
    /\ LET v1 == IF field = "number1" THEN Sanitize(raw) ELSE number1Input
           v2 == IF field = "number2" THEN Sanitize(raw) ELSE number2Input
       IN  /\ number1Input' = v1
           /\ number2Input' = v2
           /\ addButton' = [addButton EXCEPT !.disabled = updateButtonState(v1, v2)]
    /\ last' = Event("validateInput", field, Null, FALSE)
    /\ UNCHANGED <<page, resultDiv, addRequests, resumeVars>>

\* the body of handleAddition up to its first await (lines 58-81)
HandleAddition(trigger) ==
    LET num1 == parseFloat(number1Input)
        num2 == parseFloat(number2Input)
    IN  IF isNaN(num1) \/ isNaN(num2)
        THEN /\ resultDiv' = showErrorCalc(AddInvalidMessage)
             /\ last' = Event("handleAddition", trigger, Null, FALSE)
             /\ UNCHANGED <<addButton, addRequests>>
        ELSE /\ AddPending # Slots
             /\ addButton' = AddButtonBusy
             /\ addRequests' = [addRequests EXCEPT ![FreeSlot(Slots \ AddPending)] = "fetch"]
             /\ last' = Event("handleAddition", trigger, Null, TRUE)
             /\ UNCHANGED resultDiv

\* click on addButton: a disabled button dispatches no click
AddClick ==
    /\ page = "calculator"
    /\ ~addButton.disabled
    /\ HandleAddition("click")
    /\ UNCHANGED <<page, number1Input, number2Input, resumeVars>>

\* keypress in a number field
HandleKeyPress(key) ==
    /\ page = "calculator"
    /\ IF key = "Enter"
       THEN HandleAddition("Enter")
       ELSE /\ last' = Event("handleKeyPress", key, Null, FALSE)
            /\ UNCHANGED <<addButton, resultDiv, addRequests>>
    /\ UNCHANGED <<page, number1Input, number2Input, resumeVars>>

\* a catch block that sends the request again
AddCatchRetries(s, why) ==
    /\ resultDiv' = showErrorCalc(AddFailureMessage)
    /\ addButton' = AddButtonBusy
    /\ addRequests' = [addRequests EXCEPT ![s] = "fetch"]
    /\ last' = Event("addSettled", why, Null, FALSE)

\* catch and finally of handleAddition (lines 90-98)
AddCatch(s, why) ==
    /\ resultDiv' = showErrorCalc(AddFailureMessage)
    /\ addButton' = AddButtonFinally(number1Input, number2Input)
    /\ addRequests' = [addRequests EXCEPT ![s] = "free"]
    /\ last' = Event("addSettled", why, Null, FALSE)

\* the fetch of slot s settles: rejected, answered non-2xx, or answered 2xx
AddFetchSettle(s, outcome) ==
    /\ page = "calculator"
    /\ addRequests[s] = "fetch"
    /\ IF outcome = "ok"
       THEN /\ addRequests' = [addRequests EXCEPT ![s] = "json"]
            /\ last' = Event("addFetch", "ok", Null, FALSE)
            /\ UNCHANGED <<addButton, resultDiv>>
       ELSE AddCatch(s, outcome)
    /\ UNCHANGED <<page, number1Input, number2Input, resumeVars>>

\* response.json() of slot s settles: rejected (malformed), null, or an object
AddJsonSettle(s, kind, data) ==
    /\ page = "calculator"
    /\ addRequests[s] = "json"
    /\ IF kind = "object"
       THEN /\ resultDiv' = showResult(data)
            /\ addButton' = AddButtonFinally(number1Input, number2Input)
            /\ addRequests' = [addRequests EXCEPT ![s] = "free"]
            /\ last' = Response("addSettled", "result", Null, data, "none")
       ELSE AddCatch(s, kind)
    /\ UNCHANGED <<page, number1Input, number2Input, resumeVars>>

(***************************************************************************)
(* Resume viewer: rendering                                                *)
(***************************************************************************)
\* a field that is present and not the empty string (JavaScript truthiness)
Truthy(obj, f) == f \in DOMAIN obj /\ obj[f] # ""

\* ${obj.f}: a missing field is interpolated as "undefined"
Interpolate(obj, f) == IF f \in DOMAIN obj THEN obj[f] ELSE "undefined"

\* the array-valued fields whose .length displayResumeData reads unguarded
ArrayFields == {"contact_info", "education", "work_experience", "skills",
                "projects", "certifications", "languages"}

\* the two dates joined without filter(Boolean)
DateRangeUnfiltered(entry) ==
    <<Interpolate(entry, "start_date"), " - ", Interpolate(entry, "end_date")>>

\* [a, b].filter(Boolean).join(' - ') of lines 185 and 206
DateRange(entry) ==
    Join(SelectSeq(<<IF Truthy(entry, "start_date") THEN <<entry.start_date>> ELSE <<>>,
                     IF Truthy(entry, "end_date") THEN <<entry.end_date>> ELSE <<>>>>,
                   LAMBDA d : d # <<>>),
         <<" - ">>)

Line(label, obj, f) == IF Truthy(obj, f) THEN <<<<label, obj[f]>>>> ELSE <<>>

DatesLine(entry) ==
    IF Truthy(entry, "start_date") \/ Truthy(entry, "end_date")
    THEN <<<<"Dates:">> \o DateRange(entry)>>
    ELSE <<>>

EducationItem(edu) ==
    Line("Institution:", edu, "institution") \o Line("Degree:", edu, "degree")
    \o Line("Field:", edu, "field_of_study") \o DatesLine(edu)

WorkItem(work) ==
    Line("Company:", work, "company") \o Line("Position:", work, "position")
    \o DatesLine(work) \o Line("Description:", work, "description")

ProjectItem(project) ==
    Line("Project:", project, "name") \o Line("Description:", project, "description")
    \o (IF Len(project.technologies) > 0
        THEN <<<<"Technologies:">> \o Join([i \in 1..Len(project.technologies) |-> <<project.technologies[i]>>], <<", ">>)>>
        ELSE <<>>)

CertificationItem(cert) ==
    Line("Certification:", cert, "name") \o Line("Issuer:", cert, "issuer")

\* the names taken last entry first
NamesReversed(entries) ==
    [i \in 1..Len(entries) |-> Interpolate(entries[Len(entries) + 1 - i], "name")]

Names(entries) == [i \in 1..Len(entries) |-> Interpolate(entries[i], "name")]

Section(title, items) == <<[title |-> title, items |-> items]>>

\* displayResumeData throws a TypeError: the payload is missing, an array field
\* is missing, or a project has no technologies array
RenderThrows(data) ==
    \/ data = Null
    \/ \E f \in ArrayFields : f \notin DOMAIN data
    \/ \E i \in 1..Len(data.projects) : "technologies" \notin DOMAIN data.projects[i]

\* the html displayResumeData builds (lines 134-277): a sequence of sections,
\* each a title and its data-items, each data-item a sequence of lines
RenderHtml(data) ==
    (IF Truthy(data, "full_name") \/ Len(data.contact_info) > 0
     THEN Section("Personal Information",
              (IF Truthy(data, "full_name") THEN <<<<<<"Name:", data.full_name>>>>>> ELSE <<>>)
              \o (IF Len(data.contact_info) > 0
                  THEN <<<<<<"Contact:">>
                           \o [i \in 1..Len(data.contact_info) |->
                                  Interpolate(data.contact_info[i], "value")]>>>>
                  ELSE <<>>))
     ELSE <<>>)
    \o (IF Truthy(data, "summary")
        THEN Section("Summary", <<<<<<data.summary>>>>>>) ELSE <<>>)
    \o (IF Len(data.education) > 0
        THEN Section("Education", [i \in 1..Len(data.education) |-> EducationItem(data.education[i])]) ELSE <<>>)
    \o (IF Len(data.work_experience) > 0
        THEN Section("Work Experience", [i \in 1..Len(data.work_experience) |-> WorkItem(data.work_experience[i])]) ELSE <<>>)
    \o (IF Len(data.skills) > 0
        THEN Section("Skills", <<<<Names(data.skills)>>>>) ELSE <<>>)
    \o (IF Len(data.projects) > 0
        THEN Section("Projects", [i \in 1..Len(data.projects) |-> ProjectItem(data.projects[i])]) ELSE <<>>)
    \o (IF Len(data.certifications) > 0
        THEN Section("Certifications", [i \in 1..Len(data.certifications) |-> CertificationItem(data.certifications[i])])
        ELSE <<>>)
    \o (IF Len(data.languages) > 0
        THEN Section("Languages", <<<<Names(data.languages)>>>>) ELSE <<>>)

\* resume_data payloads of the service
FullResume ==
    [full_name |-> "Ada", summary |-> "Engineer",
     contact_info |-> <<[type |-> "email", value |-> "ada@example.org"]>>,
     education |-> <<[institution |-> "MIT", degree |-> "BSc",
                      start_date |-> "2010", end_date |-> "2014"]>>,
     work_experience |-> <<[company |-> "Acme", position |-> "Eng", start_date |-> "2015"],
                           [company |-> "Initech", end_date |-> "2009"]>>,
     skills |-> <<[name |-> "TLA+"], [name |-> "Go"]>>,
     projects |-> <<[name |-> "Checker", technologies |-> <<"Java", "TLA+">>]>>,
     certifications |-> <<[name |-> "CKA", issuer |-> "CNCF"]>>,
     languages |-> <<[name |-> "English"]>>]

WorkOnlyResume ==
    [full_name |-> "", contact_info |-> <<>>, education |-> <<>>,
     work_experience |-> <<[company |-> "Acme", position |-> "Eng"]>>,
     skills |-> <<>>, projects |-> <<>>, certifications |-> <<>>, languages |-> <<>>]

\* the education key is absent
NoEducationResume ==
    [full_name |-> "Bob", contact_info |-> <<>>,
     work_experience |-> <<[company |-> "Acme", position |-> "Eng"]>>,
     skills |-> <<>>, projects |-> <<>>, certifications |-> <<>>, languages |-> <<>>]

\* the bodies a 2xx answer of POST /parse-resume may carry once parsed as JSON
ParseBodies ==
    { [success |-> TRUE, resume_data |-> FullResume],
      [success |-> TRUE, resume_data |-> WorkOnlyResume],
      [success |-> TRUE, resume_data |-> NoEducationResume],
      [success |-> TRUE],
      [success |-> FALSE, message |-> "Could not extract text from the PDF"],
      [success |-> FALSE] }

(***************************************************************************)
(* Resume viewer: handlers                                                 *)
(***************************************************************************)
ParseFailureMessage == "Failed to parse resume. Please check if the server is running."

ParseFallbackMessage == "Failed to parse resume"

NoFileMessage == "Please select a file first"

NotPdfMessage == "Please select a PDF file"

TooBigMessage == "File size must be less than 10MB"

\* showLoading without the line that disables the button
showLoadingLeavesButton == loading' = "block" /\ UNCHANGED parseButton

showLoading == loading' = "block" /\ parseButton' = [disabled |-> TRUE]

hideLoading == loading' = "none" /\ parseButton' = [disabled |-> FALSE]

showError(message) == errorMessage' = message /\ error' = "block"

hideError == error' = "none" /\ UNCHANGED errorMessage

hideResult == resultSection' = "none"

\* processFile, line 58
IsPdf(file) == Includes(file.type, <<"p", "d", "f">>)

\* a limit of 100 MiB instead of 10 MiB
TooBigLooseLimit(file) == file.size > MaxFileSize * 10

\* processFile, lines 64-65
TooBig(file) == file.size > MaxFileSize

\* processFile that drops the current selection when it rejects a file
processFileRejectClears(file, area) ==
    IF ~IsPdf(file) \/ TooBig(file)
    THEN /\ showError(IF ~IsPdf(file) THEN NotPdfMessage ELSE TooBigMessage)
         /\ uploadArea' = area
         /\ selectedFile' = Null
         /\ UNCHANGED <<fileName, fileSize, fileInfo, resultSection>>
    ELSE /\ selectedFile' = file
         /\ fileName' = file.name
         /\ fileSize' = formatFileSize(file.size)
         /\ uploadArea' = [area EXCEPT !.display = "none"]
         /\ fileInfo' = "flex"
         /\ hideError
         /\ hideResult

\* processFile that leaves an earlier result on screen when it accepts a file
processFileKeepsResult(file, area) ==
    IF ~IsPdf(file) \/ TooBig(file)
    THEN /\ showError(IF ~IsPdf(file) THEN NotPdfMessage ELSE TooBigMessage)
         /\ uploadArea' = area
         /\ UNCHANGED <<selectedFile, fileName, fileSize, fileInfo, resultSection>>
    ELSE /\ selectedFile' = file
         /\ fileName' = file.name
         /\ fileSize' = formatFileSize(file.size)
         /\ uploadArea' = [area EXCEPT !.display = "none"]
         /\ fileInfo' = "flex"
         /\ hideError
         /\ UNCHANGED resultSection

\* area: the upload area as the calling handler left it
processFile(file, area) ==
    IF ~IsPdf(file)
    THEN /\ showError(NotPdfMessage)
         /\ uploadArea' = area
         /\ UNCHANGED <<selectedFile, fileName, fileSize, fileInfo, resultSection>>
    ELSE IF TooBig(file)
    THEN /\ showError(TooBigMessage)
         /\ uploadArea' = area
         /\ UNCHANGED <<selectedFile, fileName, fileSize, fileInfo, resultSection>>
    ELSE /\ selectedFile' = file
         /\ fileName' = file.name
         /\ fileSize' = formatFileSize(file.size)
         /\ uploadArea' = [area EXCEPT !.display = "none"]
         /\ fileInfo' = "flex"
         /\ hideError
         /\ hideResult

\* change event of the file picker; picked = Null when the dialog ends with
\* no file chosen
HandleFileSelect(picked) ==
    /\ page = "resume"
    /\ picked # fileInput
    /\ fileInput' = picked
    /\ IF picked # Null
       THEN processFile(picked, uploadArea)
       ELSE UNCHANGED <<selectedFile, fileName, fileSize, fileInfo, resultSection,
                        uploadArea, error, errorMessage>>
    /\ last' = Event("handleFileSelect", "change", picked, FALSE)
    /\ UNCHANGED <<page, calcVars, parseButton, loading, resumeData, parseRequests>>

HandleDragOver ==
    /\ page = "resume"
    /\ uploadArea.display # "none"
    /\ uploadArea' = [uploadArea EXCEPT !.dragover = TRUE]
    /\ last' = Event("handleDragOver", "dragover", Null, FALSE)
    /\ UNCHANGED <<page, calcVars, selectedFile, fileInput, fileInfo, fileName, fileSize,
                   parseButton, loading, resultSection, resumeData, error, errorMessage,
                   parseRequests>>

HandleDragLeave ==
    /\ page = "resume"
    /\ uploadArea.display # "none"
    /\ uploadArea' = [uploadArea EXCEPT !.dragover = FALSE]
    /\ last' = Event("handleDragLeave", "dragleave", Null, FALSE)
    /\ UNCHANGED <<page, calcVars, selectedFile, fileInput, fileInfo, fileName, fileSize,
                   parseButton, loading, resultSection, resumeData, error, errorMessage,
                   parseRequests>>

\* drop on the upload area, which receives no event while it is not displayed
\* (a drop that carries no file only clears dragover)
HandleDrop(dropped) ==
    /\ page = "resume"
    /\ uploadArea.display # "none"
    /\ IF dropped # Null
       THEN processFile(dropped, [uploadArea EXCEPT !.dragover = FALSE])
       ELSE /\ uploadArea' = [uploadArea EXCEPT !.dragover = FALSE]
            /\ UNCHANGED <<selectedFile, fileName, fileSize, fileInfo, resultSection,
                           error, errorMessage>>
    /\ last' = Event("handleDrop", "drop", dropped, FALSE)
    /\ UNCHANGED <<page, calcVars, fileInput, parseButton, loading, resumeData,
                   parseRequests>>

ResetUpload ==
    /\ page = "resume"
    /\ selectedFile' = Null
    /\ fileInput' = Null
    /\ uploadArea' = [uploadArea EXCEPT !.display = "block"]
    /\ fileInfo' = "none"
    /\ hideError
    /\ hideResult
    /\ last' = Event("resetUpload", "reset", Null, FALSE)
    /\ UNCHANGED <<page, calcVars, fileName, fileSize, parseButton, loading, resumeData,
                   parseRequests>>

ParsePending == {s \in Slots : parseRequests[s].phase # "free"}

\* click on parseButton (a disabled button dispatches no click): handleParse
\* up to its first await (lines 93-110)
HandleParse ==
    /\ page = "resume"
    /\ ~parseButton.disabled
    /\ IF selectedFile = Null
       THEN /\ showError(NoFileMessage)
            /\ last' = Event("handleParse", "click", Null, FALSE)
            /\ UNCHANGED <<loading, parseButton, resultSection, parseRequests>>
       ELSE /\ ParsePending # Slots
            /\ showLoading
            /\ hideError
            /\ hideResult
            /\ parseRequests' =
                   [parseRequests EXCEPT ![FreeSlot(Slots \ ParsePending)] =
                        [phase |-> "fetch", file |-> selectedFile]]
            /\ last' = Event("handleParse", "click", selectedFile, TRUE)
    /\ UNCHANGED <<page, calcVars, selectedFile, fileInput, uploadArea, fileInfo, fileName,
                   fileSize, resumeData>>

FreeParseSlot == [phase |-> "free", file |-> Null]

\* a renderer that appends to what the element holds
displayResumeDataAppends(data) ==
    /\ resumeData' = resumeData \o RenderHtml(data)
    /\ resultSection' = "block"

\* displayResumeData when it does not throw: lines 279-280
displayResumeData(data) ==
    /\ resumeData' = RenderHtml(data)
    /\ resultSection' = "block"

\* what resumeData held when displayResumeData(payload) was entered: nothing,
\* the rendering of this very payload, or the rendering of another one
PriorOutput(payload) ==
    IF resumeData = <<>> THEN "empty"
    ELSE IF resumeData = RenderHtml(payload) THEN "same"
    ELSE "other"

\* handleParse with no finally block: a caught failure skips hideLoading
ParseCatchSkipsCleanup(s, why, data) ==
    /\ showError(ParseFailureMessage)
    /\ UNCHANGED <<loading, parseButton>>
    /\ parseRequests' = [parseRequests EXCEPT ![s] = FreeParseSlot]
    /\ last' = Response("parseSettled", why, parseRequests[s].file, data, "none")
    /\ UNCHANGED <<resultSection, resumeData>>

\* catch and finally of handleParse (lines 124-129)
ParseCatch(s, why, data) ==
    /\ showError(ParseFailureMessage)
    /\ hideLoading
    /\ parseRequests' = [parseRequests EXCEPT ![s] = FreeParseSlot]
    /\ last' = Response("parseSettled", why, parseRequests[s].file, data, "none")
    /\ UNCHANGED <<resultSection, resumeData>>

\* the fetch of slot s settles: rejected, answered non-2xx, or answered 2xx
ParseFetchSettle(s, outcome) ==
    /\ page = "resume"
    /\ parseRequests[s].phase = "fetch"
    /\ IF outcome = "ok"
       THEN /\ parseRequests' = [parseRequests EXCEPT ![s].phase = "json"]
            /\ last' = Event("parseFetch", "ok", parseRequests[s].file, FALSE)
            /\ UNCHANGED <<loading, parseButton, error, errorMessage, resultSection,
                           resumeData>>
       ELSE ParseCatch(s, outcome, Null)
    /\ UNCHANGED <<page, calcVars, selectedFile, fileInput, uploadArea, fileInfo, fileName,
                   fileSize>>

\* response.json() of slot s settles: rejected (malformed), null, or an object
ParseJsonSettle(s, kind, data) ==
    /\ page = "resume"
    /\ parseRequests[s].phase = "json"
    /\ IF kind # "object"
       THEN ParseCatch(s, kind, Null)
       ELSE IF "success" \in DOMAIN data /\ data.success
       THEN LET payload == IF "resume_data" \in DOMAIN data THEN data.resume_data ELSE Null
            IN  IF RenderThrows(payload)
                THEN ParseCatch(s, "renderThrew", data)
                ELSE /\ displayResumeData(payload)
                     /\ hideLoading
                     /\ parseRequests' = [parseRequests EXCEPT ![s] = FreeParseSlot]
                     /\ last' = Response("parseSettled", "rendered", parseRequests[s].file,
                                         data, PriorOutput(payload))
                     /\ UNCHANGED <<error, errorMessage>>
       ELSE /\ showError(IF Truthy(data, "message") THEN data.message
                         ELSE ParseFallbackMessage)
            /\ hideLoading
            /\ parseRequests' = [parseRequests EXCEPT ![s] = FreeParseSlot]
            /\ last' = Response("parseSettled", "appError", parseRequests[s].file,
                                data, "none")
            /\ UNCHANGED <<resultSection, resumeData>>
    /\ UNCHANGED <<page, calcVars, selectedFile, fileInput, uploadArea, fileInfo, fileName,
                   fileSize>>

(***************************************************************************)
(* Specification                                                           *)
(***************************************************************************)
\* why a fetch fails without a 2xx answer, or "ok"
FetchOutcomes == {"network", "http", "ok"}

\* a body that is no JSON (json() rejects) or the JSON value null
BadBodies == {"malformed", "null"}

Init ==
    /\ page \in {"calculator", "resume"}
    /\ last = Event("load", "load", Null, FALSE)
    /\ number1Input = <<>>
    /\ number2Input = <<>>
    /\ addButton = [disabled |-> updateButtonState(<<>>, <<>>), textContent |-> "Add"]
    /\ resultDiv = [textContent |-> <<>>, className |-> "result"]
    /\ addRequests = [s \in Slots |-> "free"]
    /\ selectedFile = Null
    /\ fileInput = Null
    /\ uploadArea = [display |-> "block", dragover |-> FALSE]
    /\ fileInfo = "none"
    /\ fileName = ""
    /\ fileSize = Null
    /\ parseButton = [disabled |-> FALSE]
    /\ loading = "none"
    /\ resultSection = "none"
    /\ resumeData = <<>>
    /\ error = "none"
    /\ errorMessage = ""
    /\ parseRequests = [s \in Slots |-> FreeParseSlot]

\* one step of either page, with the user's inputs drawn from the given sets
NextOver(raws, keys, files) ==
    \/ \E field \in {"number1", "number2"}, raw \in raws : ValidateInput(field, raw)
    \/ AddClick
    \/ \E key \in keys : HandleKeyPress(key)
    \/ \E s \in Slots, outcome \in FetchOutcomes : AddFetchSettle(s, outcome)
    \/ \E s \in Slots, kind \in BadBodies : AddJsonSettle(s, kind, Null)
    \/ \E s \in Slots, data \in AddBodies : AddJsonSettle(s, "object", data)
    \/ \E picked \in files \cup {Null} : HandleFileSelect(picked)
    \/ HandleDragOver
    \/ HandleDragLeave
    \/ \E dropped \in files \cup {Null} : HandleDrop(dropped)
    \/ ResetUpload
    \/ HandleParse
    \/ \E s \in Slots, outcome \in FetchOutcomes : ParseFetchSettle(s, outcome)
    \/ \E s \in Slots, kind \in BadBodies : ParseJsonSettle(s, kind, Null)
    \/ \E s \in Slots, data \in ParseBodies : ParseJsonSettle(s, "object", data)

Next == NextOver(RawInputs, {"Enter", "5"}, Files)

Spec == Init /\ [][Next]_vars

\* every issued fetch eventually settles, and so does the reading of its body
AddSettle(s) ==
    \/ \E outcome \in FetchOutcomes : AddFetchSettle(s, outcome)
    \/ \E kind \in BadBodies : AddJsonSettle(s, kind, Null)
    \/ \E data \in AddBodies : AddJsonSettle(s, "object", data)

ParseSettle(s) ==
    \/ \E outcome \in FetchOutcomes : ParseFetchSettle(s, outcome)
    \/ \E kind \in BadBodies : ParseJsonSettle(s, kind, Null)
    \/ \E data \in ParseBodies : ParseJsonSettle(s, "object", data)

\* The inputs of the liveness check: a valid and an invalid number, an
\* eligible and an ineligible file.  Which text or file the user enters does
\* not decide whether a pending handler completes; every response outcome
\* is kept.
LiveRawInputs == {<<>>, <<"5">>}

LiveFiles == {f \in Files : f.name \in {"cv.pdf", "notes.txt"}}

LiveNext == NextOver(LiveRawInputs, {"Enter"}, LiveFiles)

FairSpec ==
    /\ Init
    /\ [][LiveNext]_vars
    /\ \A s \in Slots : WF_vars(AddSettle(s)) /\ WF_vars(ParseSettle(s))

(***************************************************************************)
(* Rendering many payloads                                                 *)
(***************************************************************************)
\* entries with every combination of start_date and end_date: both, one,
\* none, and an empty string next to a date
EducationEntries ==
    <<[institution |-> "MIT", degree |-> "BSc", start_date |-> "2010", end_date |-> "2014"],
      [institution |-> "ETH", field_of_study |-> "Logic", start_date |-> "2015"],
      [institution |-> "CMU", end_date |-> "2019"],
      [institution |-> "Open University", degree |-> "MSc"],
      [degree |-> "PhD", start_date |-> "", end_date |-> "2023"]>>

WorkEntries ==
    <<[company |-> "Acme", position |-> "Eng", start_date |-> "2015", end_date |-> "2018",
       description |-> "Built things"],
      [company |-> "Initech", end_date |-> "2009"],
      [company |-> "Globex", start_date |-> "2019", end_date |-> ""],
      [company |-> "Umbrella", position |-> "Intern"],
      [position |-> "Freelance", start_date |-> "", end_date |-> ""]>>

\* payloads with every field empty or not, all keys present
AllPayloads ==
    [full_name       : {"", "Ada"},
     summary         : {"", "Engineer"},
     contact_info    : {<<>>, <<[type |-> "email", value |-> "ada@example.org"],
                                [type |-> "phone", value |-> "555-0100"]>>},
     education       : {<<>>, EducationEntries},
     work_experience : {<<>>, WorkEntries},
     skills          : {<<>>, <<[name |-> "TLA+"], [name |-> "Go"]>>},
     projects        : {<<>>, <<[name |-> "Checker", technologies |-> <<"Java", "TLA+">>],
                                [name |-> "Site", description |-> "Blog",
                                 technologies |-> <<>>]>>},
     certifications  : {<<>>, <<[name |-> "CKA", issuer |-> "CNCF"], [name |-> "AWS"]>>},
     languages       : {<<>>, <<[name |-> "English"], [name |-> "French"]>>}]

\* every combination of empty and non-empty categories; Personal Information
\* with only a name or only contacts next to seven non-empty categories
RenderPayloads ==
    {d \in AllPayloads :
        (d.full_name = "") # (d.contact_info = <<>>)
            => /\ d.summary # ""
               /\ \A f \in ArrayFields \ {"contact_info"} : d[f] # <<>>}

RenderBodies ==
    {[success |-> TRUE, resume_data |-> d] : d \in RenderPayloads \cup {WorkOnlyResume}}

RenderFile == CHOOSE f \in Files : f.name = "cv.pdf"

RenderInit == Init /\ page = "resume"

\* the resume viewer parsing one file again and again, the service answering
\* with any of the payloads
RenderNext ==
    \/ HandleFileSelect(RenderFile)
    \/ HandleParse
    \/ \E s \in Slots : ParseFetchSettle(s, "ok")
    \/ \E s \in Slots, data \in RenderBodies : ParseJsonSettle(s, "object", data)

RenderSpec == RenderInit /\ [][RenderNext]_vars

(***************************************************************************)
(* Vocabulary of the properties                                            *)
(***************************************************************************)
\* a PDF-typed file of at most 10 MiB
FileOk(f) == Includes(f.type, <<"p", "d", "f">>) /\ f.size <= 10 * 1024 * 1024

SelectionOps == {"handleFileSelect", "handleDrop"}

TransportFailures == {"network", "http"}

Count(seq, c) == Cardinality({i \in 1..Len(seq) : seq[i] = c})

\* only digits, at most one '.', at most one '-', which then comes first
WellFormedNumber(v) ==
    /\ \A i \in 1..Len(v) : v[i] \in DigitChars \cup {".", "-"}
    /\ Count(v, ".") <= 1
    /\ Count(v, "-") <= 1
    /\ \A i \in 1..Len(v) : v[i] = "-" => i = 1

\* non-empty after trimming and parsed to a finite number
FiniteNumber(v) == Trim(v) # <<>> /\ parseFloat(v) = "finite"

(***************************************************************************)
(* Properties                                                              *)
(***************************************************************************)
\* C1: calculator: at most one POST /add request is outstanding at any time.
C1_AtMostOneAddOutstanding == Cardinality(AddPending) <= 1

\* C2: resume viewer: at most one POST /parse-resume request is outstanding at
\* any time, and parseButton is disabled (loading shown) exactly while it is.
C2_AtMostOneParseOutstanding ==
    /\ Cardinality(ParsePending) <= 1
    /\ (ParsePending # {}) <=> parseButton.disabled
    /\ (ParsePending # {}) <=> (loading = "block")

\* a file is selected or dropped while the parse request is in flight
C2_Witness ==
    /\ Cardinality(ParsePending) = 1
    /\ last.op = "handleFileSelect"
    /\ last.file # Null
    /\ selectedFile = last.file

\* C3: provided every fetch settles, every action that entered the busy state
\* leaves it: its handler ends with the loading indicator hidden (parse) or the
\* label back to 'Add' (add), whatever the outcome.
C3_BusyEventuallyIdle ==
    \A s \in Slots :
        (parseRequests[s].phase # "free" \/ addRequests[s] # "free")
            ~> /\ parseRequests[s].phase = "free"
               /\ addRequests[s] = "free"
               /\ loading = "none"
               /\ ~parseButton.disabled
               /\ addButton.textContent = "Add"

\* a parse whose body could not be rendered has left the busy state
C3_Witness ==
    /\ last.op = "parseSettled"
    /\ last.arg \in {"malformed", "renderThrew"}
    /\ loading = "none"
    /\ ~parseButton.disabled

\* C4 as stated: after a transport failure the control is enabled and the
\* generic message is displayed, whatever happened while the request was in
\* flight.
C4_ControlEnabledAfterFailure ==
    /\ (last.op = "parseSettled" /\ last.arg \in TransportFailures)
           => /\ ~parseButton.disabled
              /\ error = "block"
              /\ errorMessage = ParseFailureMessage
    /\ (last.op = "addSettled" /\ last.arg \in TransportFailures)
           => /\ ~addButton.disabled
              /\ resultDiv = showErrorCalc(AddFailureMessage)

\* C4 amended: after a transport failure the generic message is displayed,
\* parseButton is enabled, and addButton is enabled exactly when both number
\* fields hold text that parses as a number at that moment.
C4_ControlRestoredAfterFailure ==
    /\ (last.op = "parseSettled" /\ last.arg \in TransportFailures)
           => /\ ~parseButton.disabled
              /\ error = "block"
              /\ errorMessage = ParseFailureMessage
    /\ (last.op = "addSettled" /\ last.arg \in TransportFailures)
           => /\ ~addButton.disabled
                  <=> (~isNaN(parseFloat(number1Input)) /\ ~isNaN(parseFloat(number2Input)))
              /\ addButton.textContent = "Add"
              /\ resultDiv = showErrorCalc(AddFailureMessage)

\* the add request failed after a field was emptied while it was in flight
C4_Witness ==
    /\ last.op = "addSettled"
    /\ last.arg = "network"
    /\ addButton.disabled
    /\ isNaN(parseFloat(number1Input))

\* C5: calculator: after every input event each field holds only digits, at
\* most one '.', and at most one '-', which if present is the first character.
C5_SanitizedWellFormed ==
    WellFormedNumber(number1Input) /\ WellFormedNumber(number2Input)

\* C6: calculator: right after an input event addButton is enabled iff both
\* fields are non-empty after trimming and parse as finite numbers.
C6_EnabledIffFinite ==
    last.op = "validateInput"
        => (~addButton.disabled
                <=> (FiniteNumber(number1Input) /\ FiniteNumber(number2Input)))

\* C7: resume viewer: selectedFile is null or a PDF-typed file of at most
\* 10 MiB (exactly 10 MiB is accepted), and so is every file sent to
\* /parse-resume.
C7_SelectedFileEligible ==
    /\ selectedFile # Null => FileOk(selectedFile)
    /\ \A s \in ParsePending : FileOk(parseRequests[s].file)
    /\ (last.op \in SelectionOps /\ last.file # Null /\ FileOk(last.file))
           => selectedFile = last.file

\* a file of exactly 10 MiB was selected and is being sent
C7_Witness ==
    /\ selectedFile # Null
    /\ selectedFile.size = 10 * 1024 * 1024
    /\ \E s \in ParsePending : parseRequests[s].file = selectedFile

\* C8: resume viewer: selecting a file that is no PDF or exceeds 10 MiB shows
\* a message (the size message for an oversized PDF) and changes neither
\* selectedFile, nor the displayed name and size, nor the visibility of the
\* result section.
C8_RejectedSelectionChangesNothing ==
    [][ (last'.op \in SelectionOps /\ last'.file # Null /\ ~FileOk(last'.file))
            => /\ selectedFile' = selectedFile
               /\ fileName' = fileName
               /\ fileSize' = fileSize
               /\ fileInfo' = fileInfo
               /\ resultSection' = resultSection
               /\ error' = "block"
               /\ errorMessage' = IF Includes(last'.file.type, <<"p", "d", "f">>)
                                  THEN TooBigMessage ELSE NotPdfMessage ]_vars

\* an oversized PDF was rejected while a file was selected and a result shown
C8_Witness ==
    /\ last.op = "handleFileSelect"
    /\ last.file # Null
    /\ Includes(last.file.type, <<"p", "d", "f">>)
    /\ last.file.size > 10 * 1024 * 1024
    /\ selectedFile # Null
    /\ resultSection = "block"
    /\ errorMessage = TooBigMessage

\* C9: resume viewer: when processFile accepts a file, selectedFile is that
\* file, the error banner is hidden and the result section is hidden.
C9_AcceptedSelectionReplaces ==
    (last.op \in SelectionOps /\ last.file # Null /\ FileOk(last.file))
        => /\ selectedFile = last.file
           /\ fileName = last.file.name
           /\ error = "none"
           /\ resultSection = "none"

\* a file was accepted in place of the one whose parse is still in flight
C9_Witness ==
    /\ last.op = "handleFileSelect"
    /\ last.file # Null
    /\ selectedFile = last.file
    /\ \E s \in ParsePending : parseRequests[s].file # selectedFile

\* C10: a handler whose client-side validation fails only shows its message:
\* it sends nothing and leaves the busy state alone; every other call of
\* handleParse or handleAddition sends exactly one request, and no other step
\* sends one: a settled request is gone, whatever its outcome.
C10_OneRequestPerValidAction ==
    [][ /\ last'.op = "handleParse"
            => IF selectedFile = Null
               THEN /\ parseRequests' = parseRequests
                    /\ loading' = loading
                    /\ parseButton' = parseButton
                    /\ error' = "block"
                    /\ errorMessage' = NoFileMessage
               ELSE /\ Cardinality(ParsePending') = Cardinality(ParsePending) + 1
                    /\ \A s \in ParsePending' \ ParsePending :
                           parseRequests'[s] = [phase |-> "fetch", file |-> selectedFile]
                    /\ \A s \in ParsePending : parseRequests'[s] = parseRequests[s]
        /\ last'.op = "handleAddition"
            => IF isNaN(parseFloat(number1Input)) \/ isNaN(parseFloat(number2Input))
               THEN /\ addRequests' = addRequests
                    /\ addButton' = addButton
                    /\ resultDiv' = showErrorCalc(AddInvalidMessage)
               ELSE /\ Cardinality(AddPending') = Cardinality(AddPending) + 1
                    /\ \A s \in AddPending' \ AddPending : addRequests'[s] = "fetch"
                    /\ \A s \in AddPending : addRequests'[s] = addRequests[s]
        /\ last'.op \notin {"handleParse", "handleAddition"}
            => /\ \A s \in Slots : parseRequests'[s].phase = "fetch"
                                       => parseRequests'[s] = parseRequests[s]
               /\ \A s \in Slots : addRequests'[s] = "fetch" => addRequests[s] = "fetch"
        /\ last'.op = "parseSettled"
            => Cardinality(ParsePending') = Cardinality(ParsePending) - 1
        /\ last'.op = "addSettled"
            => Cardinality(AddPending') = Cardinality(AddPending) - 1 ]_vars

\* Enter was pressed on an invalid field while an earlier request is in flight
C10_Witness ==
    /\ last.op = "handleAddition"
    /\ ~last.issued
    /\ resultDiv = showErrorCalc(AddInvalidMessage)
    /\ AddPending # {}

\* C11: resume viewer: a 2xx body with success false renders nothing and shows
\* the body's message, or 'Failed to parse resume' when it has none; a 2xx body
\* with success true is rendered and the handler shows no error.
C11_BodyDecidesOutcome ==
    (last.op = "parseSettled" /\ last.data # Null)
        => IF last.data.success
           THEN "resume_data" \in DOMAIN last.data
                    => /\ resultSection = "block"
                       /\ ~(error = "block" /\ errorMessage = ParseFailureMessage)
           ELSE /\ resultSection = "none"
                /\ error = "block"
                /\ errorMessage = IF "message" \in DOMAIN last.data
                                  THEN last.data.message ELSE ParseFallbackMessage

\* what the result line reads for the numbers the service returns
DecimalText == [r \in {800, -200, 560} |->
                   IF r = 800 THEN <<"8">>
                   ELSE IF r = -200 THEN <<"-", "2">>
                   ELSE <<"5", ".", "6">>]

\* C12: calculator: when a request completes, the result line reads
\* 'Result: r' in the non-error style for a 2xx body with result r (the r of
\* that very response), and the failure message in the error style for a
\* rejected fetch, a non-2xx answer or an unreadable body.
C12_ResultLineShowsOutcome ==
    last.op = "addSettled"
        => IF last.arg = "result"
           THEN /\ resultDiv.className = "result show"
                /\ "result" \in DOMAIN last.data
                       => resultDiv.textContent
                              = <<"Result: ">> \o DecimalText[last.data.result]
           ELSE /\ last.arg \in TransportFailures \cup {"malformed", "null"}
                /\ resultDiv.className = "result show error"
                /\ resultDiv.textContent = AddFailureMessage

\* the answer -2 is on the line while a later request is still in flight
C12_Witness ==
    /\ last.op = "addSettled"
    /\ last.arg = "result"
    /\ "result" \in DOMAIN last.data
    /\ last.data.result = -200
    /\ resultDiv = [textContent |-> <<"Result: ", "-", "2">>, className |-> "result show"]
    /\ AddPending # {}

\* the section titles in the order the specification fixes
CategoryOrder == <<"Personal Information", "Summary", "Education", "Work Experience",
                   "Skills", "Projects", "Certifications", "Languages">>

CategoryField == [t \in {"Education", "Work Experience", "Skills", "Projects",
                         "Certifications", "Languages"} |->
                     IF t = "Education" THEN "education"
                     ELSE IF t = "Work Experience" THEN "work_experience"
                     ELSE IF t = "Skills" THEN "skills"
                     ELSE IF t = "Projects" THEN "projects"
                     ELSE IF t = "Certifications" THEN "certifications"
                     ELSE "languages"]

HasEntries(d, f) == f \in DOMAIN d /\ d[f] # <<>>

\* the category of payload d shown under title t has something to show
CategoryNonEmpty(d, t) ==
    IF t = "Personal Information" THEN Truthy(d, "full_name") \/ HasEntries(d, "contact_info")
    ELSE IF t = "Summary" THEN Truthy(d, "summary")
    ELSE HasEntries(d, CategoryField[t])

ExpectedTitles(d) == SelectSeq(CategoryOrder, LAMBDA t : CategoryNonEmpty(d, t))

Titles(html) == [i \in 1..Len(html) |-> html[i].title]

SectionOf(html, t) == html[CHOOSE i \in 1..Len(html) : html[i].title = t]

LinesOf(item) == {item[k] : k \in 1..Len(item)}

\* one data-item per entry, in the order of the entries, the k-th item showing
\* the labelled fields of the k-th entry
ShowsEntries(section, entries, labelled) ==
    /\ Len(section.items) = Len(entries)
    /\ \A k \in 1..Len(entries) : \A lf \in labelled :
           Truthy(entries[k], lf[2])
               => <<lf[1], entries[k][lf[2]]>> \in LinesOf(section.items[k])

\* the names of the entries on one line, in the order of the entries
ShowsNames(section, entries) ==
    section.items = <<<<[k \in 1..Len(entries) |-> entries[k].name]>>>>

Rendered == last.op = "parseSettled" /\ last.arg = "rendered"

\* C13: displayResumeData emits one titled section per non-empty category and
\* none for an empty one, in the order Personal Information, Summary,
\* Education, Work Experience, Skills, Projects, Certifications, Languages,
\* and within a section the entries in the order received.
C13_OneSectionPerNonEmptyCategory ==
    Rendered =>
        LET d    == last.data.resume_data
            html == resumeData
        IN  /\ Titles(html) = ExpectedTitles(d)
            /\ HasEntries(d, "contact_info")
                   => <<"Contact:">> \o [k \in 1..Len(d.contact_info) |-> d.contact_info[k].value]
                          \in LinesOf(SectionOf(html, "Personal Information").items
                                          [Len(SectionOf(html, "Personal Information").items)])
            /\ HasEntries(d, "education")
                   => ShowsEntries(SectionOf(html, "Education"), d.education,
                                   {<<"Institution:", "institution">>, <<"Degree:", "degree">>,
                                    <<"Field:", "field_of_study">>})
            /\ HasEntries(d, "work_experience")
                   => ShowsEntries(SectionOf(html, "Work Experience"), d.work_experience,
                                   {<<"Company:", "company">>, <<"Position:", "position">>,
                                    <<"Description:", "description">>})
            /\ HasEntries(d, "skills") => ShowsNames(SectionOf(html, "Skills"), d.skills)
            /\ HasEntries(d, "projects")
                   => ShowsEntries(SectionOf(html, "Projects"), d.projects,
                                   {<<"Project:", "name">>, <<"Description:", "description">>})
            /\ HasEntries(d, "certifications")
                   => ShowsEntries(SectionOf(html, "Certifications"), d.certifications,
                                   {<<"Certification:", "name">>, <<"Issuer:", "issuer">>})
            /\ HasEntries(d, "languages")
                   => ShowsNames(SectionOf(html, "Languages"), d.languages)

\* empty education and one work_experience entry: a Work Experience section only
C13_Witness ==
    /\ Rendered
    /\ last.data.resume_data = WorkOnlyResume
    /\ resultSection = "block"
    /\ Titles(resumeData) = <<"Work Experience">>

\* C14: a success response whose resume_data lacks the key of a category is
\* rendered: the result section is shown with the sections of the remaining
\* non-empty categories, and the handler does not end in its failure message.
C14_AbsentCategoryOmitted ==
    ( /\ last.op = "parseSettled"
      /\ last.data # Null
      /\ last.data.success
      /\ "resume_data" \in DOMAIN last.data
      /\ \E f \in ArrayFields : f \notin DOMAIN last.data.resume_data )
        => /\ resultSection = "block"
           /\ Titles(resumeData) = ExpectedTitles(last.data.resume_data)
           /\ ~(error = "block" /\ errorMessage = ParseFailureMessage)

\* C15: rendering replaces the output and is idempotent: after
\* displayResumeData(d) the output is the rendering of d alone, whatever the
\* element held before, and rendering the payload it already shows leaves the
\* output as it is.
C15_RenderReplacesOutput ==
    [][ (last'.op = "parseSettled" /\ last'.arg = "rendered")
            => /\ resumeData' = RenderHtml(last'.data.resume_data)
               /\ last'.prior = "same" => resumeData' = resumeData ]_vars

\* the payload on display was rendered a second time
C15_Witness ==
    /\ Rendered
    /\ last.prior = "same"
    /\ resumeData # <<>>
    /\ resumeData = RenderHtml(last.data.resume_data)

DatesLinesOf(item) == {l \in LinesOf(item) : l[1] = "Dates:"}

\* the Dates line the entry must have: none, the one date, or 'start - end'
ExpectedDates(entry) ==
    IF Truthy(entry, "start_date") /\ Truthy(entry, "end_date")
    THEN {<<"Dates:", entry.start_date, " - ", entry.end_date>>}
    ELSE IF Truthy(entry, "start_date") THEN {<<"Dates:", entry.start_date>>}
    ELSE IF Truthy(entry, "end_date") THEN {<<"Dates:", entry.end_date>>}
    ELSE {}

\* C16: every education and work-experience entry has no Dates line when it
\* has neither date, the one date without ' - ' when it has exactly one, and
\* 'start - end' when it has both.
C16_DatesLine ==
    Rendered =>
        LET d == last.data.resume_data
        IN  \A t \in {"Education", "Work Experience"} :
                HasEntries(d, CategoryField[t])
                    => LET entries == d[CategoryField[t]]
                           items   == SectionOf(resumeData, t).items
                       IN  /\ Len(items) = Len(entries)
                           /\ \A k \in 1..Len(entries) :
                                  DatesLinesOf(items[k]) = ExpectedDates(entries[k])

\* entries with both dates, one date and no date are on display
C16_Witness ==
    /\ Rendered
    /\ last.data.resume_data.education = EducationEntries
    /\ last.data.resume_data.work_experience = WorkEntries
    /\ DatesLinesOf(SectionOf(resumeData, "Education").items[2]) = {<<"Dates:", "2015">>}
    /\ DatesLinesOf(SectionOf(resumeData, "Work Experience").items[4]) = {}

\* C17: whenever the result section is visible a file is selected, and a
\* response that renders a result was requested for the file that is selected
\* when it arrives: after resetUpload or a newly accepted file the late
\* response of the earlier request shows no result.
C17_ResultBelongsToSelectedFile ==
    /\ resultSection = "block" => selectedFile # Null
    /\ Rendered => selectedFile = last.file

\* C18: the error banner and the result section are never visible together,
\* and every completed handleParse leaves exactly one of them visible.
C18_ErrorAndResultExclusive ==
    /\ ~(error = "block" /\ resultSection = "block")
    /\ last.op = "parseSettled" => (error = "block" \/ resultSection = "block")

====
